---- MODULE Spec2Model ----
(***************************************************************************)
(* better_setuptools_git_version: the version string of a package, derived *)
(* from the state of its git repository.                                   *)
(*                                                                         *)
(* Text is modelled as a sequence of one-character strings.  A Python      *)
(* value that may be text or bytes is a record [b, s]: b is TRUE for a     *)
(* bytes object, s holds its characters.  subprocess.check_output returns  *)
(* str under Python 2 and bytes under Python 3; the module addresses both  *)
(* interpreters (its comments name python2.7 and python 3.10), so the      *)
(* interpreter is part of the environment (variable py3).                  *)
(***************************************************************************)
EXTENDS Integers, Sequences, FiniteSets, TLC

(***************************************************************************)
(* Bounds and program constants                                            *)
(***************************************************************************)

\* number of characters a full commit identifier has beyond the displayed ones
ShaTail == 2

\* get_version keeps the first 8 characters of HEAD's identifier
ShaShown == 8

(***************************************************************************)
(* Text                                                                    *)
(***************************************************************************)

NL == "\n"

Whitespace == {" ", NL, "\t"}

Min(a, b) == IF a <= b THEN a ELSE b

\* str.strip() / bytes.strip(): leading and trailing whitespace removed
RECURSIVE LStrip(_)
LStrip(s) ==
    IF s # <<>> /\ Head(s) \in Whitespace THEN LStrip(Tail(s)) ELSE s

RECURSIVE RStrip(_)
RStrip(s) ==
    IF s # <<>> /\ s[Len(s)] \in Whitespace
    THEN RStrip(SubSeq(s, 1, Len(s) - 1))
    ELSE s

Strip(s) == RStrip(LStrip(s))

Contains(s, c) == \E i \in 1..Len(s) : s[i] = c

\* x is a suffix of s
EndsWith(s, x) ==
    /\ Len(x) <= Len(s)
    /\ SubSeq(s, Len(s) - Len(x) + 1, Len(s)) = x

\* number of places where x occurs in s
Occurrences(s, x) ==
    Cardinality({i \in 1..Len(s) :
        /\ i + Len(x) - 1 <= Len(s)
        /\ SubSeq(s, i, i + Len(x) - 1) = x})

(***************************************************************************)
(* Python values                                                           *)
(***************************************************************************)

Text(s)  == [b |-> FALSE, s |-> s]
Bytes(s) == [b |-> TRUE, s |-> s]

\* len(v)
PyLen(v) == Len(v.s)

\* a == b: a bytes object never equals a str
PyEq(a, b) == a.b = b.b /\ a.s = b.s

\* format(v, ""), what str.format substitutes for a field: the text itself,
\* and for a bytes object its repr, b'...'
Str(v) == IF v.b THEN <<"b", "'">> \o v.s \o <<"'">> ELSE v.s

\* v[:8]
ShortSha(v) == [b |-> v.b, s |-> SubSeq(v.s, 1, Min(ShaShown, Len(v.s)))]

(***************************************************************************)
(* str.format with the keyword fields tag and sha                          *)
(***************************************************************************)

FmtOk(s)   == [ok |-> TRUE, s |-> s, exc |-> ""]
FmtErr(e)  == [ok |-> FALSE, s |-> <<>>, exc |-> e]
FmtCat(s, r) == IF r.ok THEN FmtOk(s \o r.s) ELSE r

\* index of the first "}" at or after i, 0 when there is none
RECURSIVE FieldEnd(_, _)
FieldEnd(t, i) ==
    IF i > Len(t) THEN 0
    ELSE IF t[i] = "}" THEN i
    ELSE FieldEnd(t, i + 1)

RECURSIVE FormatFrom(_, _, _, _)
FormatFrom(t, i, tag, sha) ==
    IF i > Len(t) THEN FmtOk(<<>>)
    ELSE IF t[i] = "{" THEN
        IF i < Len(t) /\ t[i + 1] = "{"
        THEN FmtCat(<<"{">>, FormatFrom(t, i + 2, tag, sha))
        ELSE LET j == FieldEnd(t, i + 1) IN
             IF j = 0 THEN FmtErr("ValueError")
             ELSE LET name == SubSeq(t, i + 1, j - 1) IN
                  IF name = <<"t", "a", "g">>
                  THEN FmtCat(tag, FormatFrom(t, j + 1, tag, sha))
                  ELSE IF name = <<"s", "h", "a">>
                  THEN FmtCat(sha, FormatFrom(t, j + 1, tag, sha))
                  ELSE FmtErr("KeyError")
    ELSE IF t[i] = "}" THEN
        IF i < Len(t) /\ t[i + 1] = "}"
        THEN FmtCat(<<"}">>, FormatFrom(t, i + 2, tag, sha))
        ELSE FmtErr("ValueError")
    ELSE FmtCat(<<t[i]>>, FormatFrom(t, i + 1, tag, sha))

\* template.format(tag=tag, sha=sha)
Format(t, tag, sha) == FormatFrom(t, 1, Str(tag), Str(sha))

(***************************************************************************)
(* Inputs                                                                  *)
(***************************************************************************)

\* "{tag}.dev{sha}", the default of get_version and of the hook
DefaultTemplate ==
    <<"{", "t", "a", "g", "}", ".", "d", "e", "v", "{", "s", "h", "a", "}">>

\* "0.1.0", the default of get_version and of the hook
DefaultStartingVersion == <<"0", ".", "1", ".", "0">>

\* "{tag}+{sha}" puts a "+" into the version; "{{r}}{sha}" has escaped braces
\* and no tag.  Every template is a valid format string over tag and sha.
Templates ==
    { DefaultTemplate,
      <<"{", "t", "a", "g", "}", "+", "{", "s", "h", "a", "}">>,
      <<"{", "{", "r", "}", "}", "{", "s", "h", "a", "}">> }

\* "1+dirty" already carries a "+" and a dirty marker
StartingVersions ==
    { DefaultStartingVersion, <<"1", "+", "d", "i", "r", "t", "y">> }

\* what `git tag --sort=version:refname --merged | tail -n1` can print
TagOutputs == { <<>>, <<"v", "1", NL>>, <<"v", "+", "1", NL>> }

ShaPrefix == <<"a", "b", "c", "d", "e", "f", "1", "2">>

\* two commit identifiers that agree on the characters get_version shows
Sha(c) == ShaPrefix \o [i \in 1..ShaTail |-> c]

\* what `git rev-parse HEAD` and `git rev-list -n 1 <name>` can print
ShaOutputs == { <<>>, Sha("3") \o <<NL>>, Sha("9") \o <<NL>> }

\* what `git status -s` can print
StatusOutputs == { <<>>, <<NL>>, <<" ", "M", " ", "x", NL>> }

ExitCodes == {0, 1}

\* the config argument of the hook: its Python type and, for a dict, its items
Dict(items) == [type |-> "dict", items |-> items]

KeySV == "starting_version"
KeyVF == "version_format"

Configs ==
    { [type |-> "list", items |-> <<>>],
      Dict(<<>>),
      Dict([k \in {"other"} |-> DefaultTemplate]),
      Dict([k \in {KeySV} |-> <<"1", "+", "d", "i", "r", "t", "y">>]),
      Dict([k \in {KeyVF} |-> <<"{", "t", "a", "g", "}", "+", "{", "s", "h", "a", "}">>]),
      Dict([k \in {KeySV, KeyVF} |->
              IF k = KeySV THEN <<"1", "+", "d", "i", "r", "t", "y">>
              ELSE <<"{", "{", "r", "}", "}", "{", "s", "h", "a", "}">>]) }

(***************************************************************************)
(* State                                                                   *)
(***************************************************************************)

VARIABLES
    py3,               \* the interpreter is Python 3: command output is bytes
    gitTag,            \* stdout of the latest-tag pipeline
    gitRevTag,         \* stdout of `git rev-list -n 1 <latest tag>`
    gitRevOther,       \* stdout of `git rev-list -n 1 b<latest tag>`
    gitHead,           \* stdout of `git rev-parse HEAD`
    gitStatus,         \* stdout of `git status -s`
    pc,                \* where the running call stands
    entry,             \* the function the caller entered
    config,            \* validate_version_config's config argument
    template,          \* get_version's template argument
    starting_version,  \* get_version's starting_version argument
    tag,               \* get_version's local tag
    lhs,               \* is_head_at_tag: the value of get_head_sha()
    version,           \* get_version's local version as bound at lines 67-72
    outcome,           \* how the call ended: a returned value or an exception
    dist,              \* dist.metadata.version
    running,           \* subprocesses spawned and not yet reaped
    log,               \* the queries issued by the running call, in order
    rcs,               \* their exit statuses
    prev               \* outcome of the last get_version call with these
                       \* arguments since the repository last changed

repo == <<gitTag, gitRevTag, gitRevOther, gitHead, gitStatus>>
locals == <<tag, lhs, version>>
vars == <<py3, repo, pc, entry, config, template, starting_version, locals,
          outcome, dist, running, log, rcs, prev>>

None == [kind |-> "none"]
Return(v) == [kind |-> "return", val |-> v]
Raise(e, m) == [kind |-> "raise", exc |-> e, msg |-> m]

\* the message of the hook's TypeError; the source puts each key name between
\* two backquote characters, which a string of this module cannot hold
ConfigMessage ==
    "Config should be a dictionary with version_format and starting_version keys."

BytesMessage == "a bytes-like object is required, not 'str'"

(***************************************************************************)
(* The functions of the module                                             *)
(***************************************************************************)

\* _get_command_output as it would be if a failed command's output were dropped
CommandOutputChecked(stdout, rc) ==
    LET output == IF rc = 0 THEN stdout ELSE <<>>
    IN  IF py3 THEN Bytes(Strip(output)) ELSE Text(Strip(output))

\* _get_command_output: the stdout of the command whether it exited zero
\* (check_output's value) or not (CalledProcessError.output), stripped
CommandOutput(stdout, rc) ==
    LET output == IF rc = 0 THEN stdout ELSE stdout
    IN  IF py3 THEN Bytes(Strip(output)) ELSE Text(Strip(output))

\* the revision argument of "git rev-list -n 1 {tag}".format(tag=tag)
RevListArg(t) == Str(t)

\* the word the shell hands to git: quotes are removed, nothing else is
\* special in the tag names considered
ShellWord(w) == SelectSeq(w, LAMBDA c : c # "'")

\* the repository's answer to `git rev-list -n 1 <name>`
RevList(name) ==
    IF Strip(gitTag) = <<>> THEN <<>>
    ELSE IF name = Strip(gitTag) THEN gitRevTag
    ELSE IF name = <<"b">> \o Strip(gitTag) THEN gitRevOther
    ELSE <<>>

\* is_dirty's test of the status output
IsDirty(out) == PyLen(out) # 0

\* is_head_at_tag's comparison
IsHeadAtTag(head, commit) == PyEq(head, commit)

\* the separator as it would be if the version's own "+" were not looked at
SeparatorAlwaysPlus(v) == <<"+">>

\* the separator of the dirty marker
Separator(v) == IF Contains(v, "+") THEN <<".">> ELSE <<"+">>

\* the decoration as it would be if get_version kept its last result in a
\* module-level variable and decorated that
DecoratedMemo(v) ==
    LET w == IF prev.kind = "call" /\ prev.out.kind = "return" THEN prev.out.val
             ELSE v
    IN  Text(Str(w) \o (IF Contains(w.s, "+") THEN <<".">> ELSE <<"+">>)
                    \o <<"d", "i", "r", "t", "y">>)

\* "{version}{separator}dirty".format(...)
Decorated(v) == Text(Str(v) \o Separator(v.s) \o <<"d", "i", "r", "t", "y">>)

\* get_version as it would be if it compared HEAD with the tag before looking
\* at the tag's length
AfterTagAlwaysChecks(t) == "is_head_at_tag"

\* where get_version goes once it has the tag
AfterTag(t) == IF PyLen(t) = 0 THEN "is_dirty" ELSE "is_head_at_tag"

\* the validation as it would be if it also demanded the two keys
IsMappingWithKeys(c) == c.type = "dict" /\ {KeySV, KeyVF} \subseteq DOMAIN c.items

\* isinstance(config, Mapping)
IsMapping(c) == c.type = "dict"

\* the starting_version and the template validate_version_config passes on
StartingVersionOf(c) ==
    IF KeySV \notin DOMAIN c.items THEN DefaultStartingVersion
    ELSE c.items[KeySV]

\* the template as it would be if one test defaulted both keys
TemplateOfCoupled(c) ==
    IF KeyVF \notin DOMAIN c.items \/ KeySV \notin DOMAIN c.items
    THEN DefaultTemplate
    ELSE c.items[KeyVF]

TemplateOf(c) ==
    IF KeyVF \notin DOMAIN c.items THEN DefaultTemplate
    ELSE c.items[KeyVF]

\* the query a spawning step issues and the step that waits for it
SpawnPoints ==
    [ get_tag            |-> [q |-> "tag",      wait |-> "wait_tag"],
      is_head_at_tag     |-> [q |-> "head",     wait |-> "wait_head_at_tag"],
      get_tag_commit_sha |-> [q |-> "rev-list", wait |-> "wait_tag_commit_sha"],
      get_head_sha       |-> [q |-> "head",     wait |-> "wait_head_sha"],
      is_dirty           |-> [q |-> "status",   wait |-> "wait_is_dirty"] ]

(***************************************************************************)
(* Initial state: any repository, either interpreter, no call running      *)
(***************************************************************************)

RepoStates ==
    { r \in TagOutputs \X ShaOutputs \X {<<>>, Sha("3") \o <<NL>>}
            \X ShaOutputs \X StatusOutputs :
        r[1] = <<>> => (r[2] = <<>> /\ r[3] = <<>>) }

Init ==
    /\ py3 \in BOOLEAN
    /\ \E r \in RepoStates :
        /\ gitTag = r[1]
        /\ gitRevTag = r[2]
        /\ gitRevOther = r[3]
        /\ gitHead = r[4]
        /\ gitStatus = r[5]
    /\ pc = "idle"
    /\ entry = "none"
    /\ config = None
    /\ template = DefaultTemplate
    /\ starting_version = DefaultStartingVersion
    /\ tag = None
    /\ lhs = None
    /\ version = None
    /\ outcome = None
    /\ dist = None
    /\ running = {}
    /\ log = <<>>
    /\ rcs = <<>>
    /\ prev = None

(***************************************************************************)
(* Steps                                                                   *)
(***************************************************************************)

\* the working tree or the history changes between two calls
RepoChange ==
    /\ pc = "idle"
    /\ \E r \in RepoStates :
        /\ r # repo
        /\ gitTag' = r[1]
        /\ gitRevTag' = r[2]
        /\ gitRevOther' = r[3]
        /\ gitHead' = r[4]
        /\ gitStatus' = r[5]
    /\ prev' = None
    /\ UNCHANGED <<py3, pc, entry, config, template, starting_version, locals,
                   outcome, dist, running, log, rcs>>

\* a caller enters get_version(t, s)
CallGetVersion ==
    /\ pc = "idle"
    /\ \E t \in Templates, s \in StartingVersions :
        /\ template' = t
        /\ starting_version' = s
        /\ prev' = IF t = template /\ s = starting_version THEN prev ELSE None
    /\ entry' = "get_version"
    /\ pc' = "get_tag"
    /\ UNCHANGED <<py3, repo, config, locals, outcome, dist, running, log, rcs>>

\* the packaging tool enters validate_version_config(dist, _, c)
CallValidate ==
    /\ pc = "idle"
    /\ entry' = "validate_version_config"
    /\ \E c \in Configs :
        /\ config' = c
        /\ IF ~IsMapping(c)
           THEN /\ outcome' = Raise("TypeError", ConfigMessage)
                /\ pc' = "done"
                /\ UNCHANGED <<template, starting_version, prev>>
           ELSE /\ starting_version' = StartingVersionOf(c)
                /\ template' = TemplateOf(c)
                /\ prev' = IF /\ TemplateOf(c) = template
                              /\ StartingVersionOf(c) = starting_version
                           THEN prev ELSE None
                /\ pc' = "get_tag"
                /\ UNCHANGED outcome
    /\ UNCHANGED <<py3, repo, locals, dist, running, log, rcs>>

\* subprocess.check_output starts the command of the query at hand
Spawn ==
    /\ pc \in DOMAIN SpawnPoints
    /\ log' = Append(log, SpawnPoints[pc].q)
    /\ running' = running \cup {Len(log) + 1}
    /\ pc' = SpawnPoints[pc].wait
    /\ UNCHANGED <<py3, repo, entry, config, template, starting_version,
                   locals, outcome, dist, rcs, prev>>

\* the command has exited with status rc: its subprocess is reaped
Reaped(rc) ==
    /\ running' = running \ {Len(log)}
    /\ rcs' = Append(rcs, rc)

\* get_version, lines 65-67
WaitTag ==
    /\ pc = "wait_tag"
    /\ \E rc \in ExitCodes :
        /\ Reaped(rc)
        /\ tag' = CommandOutput(gitTag, rc)
        /\ pc' = AfterTag(tag')
        /\ version' = IF PyLen(tag') = 0 THEN Text(starting_version) ELSE version
    /\ UNCHANGED <<py3, repo, entry, config, template, starting_version, lhs,
                   outcome, dist, log, prev>>

\* is_head_at_tag: the left operand, get_head_sha()
WaitHeadAtTag ==
    /\ pc = "wait_head_at_tag"
    /\ \E rc \in ExitCodes :
        /\ Reaped(rc)
        /\ lhs' = CommandOutput(gitHead, rc)
    /\ pc' = "get_tag_commit_sha"
    /\ UNCHANGED <<py3, repo, entry, config, template, starting_version, tag,
                   version, outcome, dist, log, prev>>

\* is_head_at_tag: the right operand, get_tag_commit_sha(tag), and lines 68-69
WaitTagCommitSha ==
    /\ pc = "wait_tag_commit_sha"
    /\ \E rc \in ExitCodes :
        /\ Reaped(rc)
        /\ LET commit == CommandOutput(RevList(ShellWord(RevListArg(tag))), rc)
           IN  IF IsHeadAtTag(lhs, commit)
               THEN version' = tag /\ pc' = "is_dirty"
               ELSE version' = version /\ pc' = "get_head_sha"
    /\ UNCHANGED <<py3, repo, entry, config, template, starting_version, tag,
                   lhs, outcome, dist, log, prev>>

\* get_version, lines 71-72
WaitHeadSha ==
    /\ pc = "wait_head_sha"
    /\ \E rc \in ExitCodes :
        /\ Reaped(rc)
        /\ LET sha == ShortSha(CommandOutput(gitHead, rc))
               f == Format(template, tag, sha)
           IN  IF f.ok
               THEN version' = Text(f.s) /\ pc' = "is_dirty" /\ outcome' = outcome
               ELSE version' = version /\ pc' = "done"
                    /\ outcome' = Raise(f.exc, "")
    /\ UNCHANGED <<py3, repo, entry, config, template, starting_version, tag,
                   lhs, dist, log, prev>>

\* get_version, lines 74-78
WaitIsDirty ==
    /\ pc = "wait_is_dirty"
    /\ \E rc \in ExitCodes :
        /\ Reaped(rc)
        /\ IF ~IsDirty(CommandOutput(gitStatus, rc))
           THEN outcome' = Return(version) /\ pc' = "return"
           ELSE IF version.b
           THEN outcome' = Raise("TypeError", BytesMessage) /\ pc' = "done"
           ELSE outcome' = Return(Decorated(version)) /\ pc' = "return"
    /\ UNCHANGED <<py3, repo, entry, config, template, starting_version,
                   locals, dist, log, prev>>

\* get_version hands its value to the caller; the hook stores it (line 98)
ReturnVersion ==
    /\ pc = "return"
    /\ dist' = IF entry = "validate_version_config" THEN outcome.val ELSE dist
    /\ pc' = "done"
    /\ UNCHANGED <<py3, repo, entry, config, template, starting_version,
                   locals, outcome, running, log, rcs, prev>>

\* get_version ran in the call that has ended
RanGetVersion == log # <<>>

AllExitedZero == \A i \in 1..Len(rcs) : rcs[i] = 0

\* the call is over and its frame is gone
Finish ==
    /\ pc = "done"
    /\ pc' = "idle"
    /\ prev' = IF RanGetVersion
               THEN [kind |-> "call", zero |-> AllExitedZero, out |-> outcome]
               ELSE prev
    /\ entry' = "none"
    /\ config' = None
    /\ tag' = None
    /\ lhs' = None
    /\ version' = None
    /\ outcome' = None
    /\ dist' = None
    /\ running' = {}
    /\ log' = <<>>
    /\ rcs' = <<>>
    /\ UNCHANGED <<py3, repo, template, starting_version>>

Next ==
    \/ RepoChange
    \/ CallGetVersion
    \/ CallValidate
    \/ Spawn
    \/ WaitTag
    \/ WaitHeadAtTag
    \/ WaitTagCommitSha
    \/ WaitHeadSha
    \/ WaitIsDirty
    \/ ReturnVersion
    \/ Finish

Spec == Init /\ [][Next]_vars

(***************************************************************************)
(* The repository as the claims speak of it                                *)
(***************************************************************************)

LatestTag == Strip(gitTag)
HeadCommit == Strip(gitHead)
TagCommit == Strip(gitRevTag)
TreeDirty == Strip(gitStatus) # <<>>

PlusDirty == <<"+", "d", "i", "r", "t", "y">>
DotDirty == <<".", "d", "i", "r", "t", "y">>

\* the suffix the specification appends to the clean-case version v
DirtySuffix(v) == IF Contains(v, "+") THEN DotDirty ELSE PlusDirty

\* a repository whose latest tag and HEAD both resolve to a commit
WellFormed == LatestTag # <<>> => (HeadCommit # <<>> /\ TagCommit # <<>>)

\* the text v holds none of the two dirty markers
Unmarked(v) == Occurrences(v, PlusDirty) + Occurrences(v, DotDirty) = 0

\* a get_version call has ended
Ended == pc = "done" /\ RanGetVersion

Returned == outcome.kind = "return"

(***************************************************************************)
(* C1  Dirty-suffix law: with a dirty tree get_version returns the string  *)
(* it returns for the same state with a clean tree, followed by ".dirty"   *)
(* if that string contains "+" and by "+dirty" otherwise; with a clean     *)
(* tree nothing is appended.  The clean-case value is the version bound at *)
(* lines 67-72, which line 78 returns untouched when the tree is clean.    *)
(* Stated over the repositories whose tag and HEAD resolve to a commit.    *)
(***************************************************************************)
C1_DirtySuffixLaw ==
    (Ended /\ WellFormed) =>
        /\ Returned
        /\ outcome.val.s =
              IF TreeDirty THEN version.s \o DirtySuffix(version.s)
              ELSE version.s

(***************************************************************************)
(* C2  With a dirty tree the returned string ends with exactly one         *)
(* "+dirty" or ".dirty": the two markers never both occur in it and the    *)
(* marker is never duplicated, whatever the tag, template and              *)
(* starting_version contain.  Stated over the repositories whose tag and    *)
(* HEAD resolve to a commit and over the calls whose clean-case version    *)
(* holds no marker of its own, where exactly one marker is what the        *)
(* suffix rule of lines 74-76 is to produce.                               *)
(***************************************************************************)
C2_OneDirtyMarker ==
    (Ended /\ TreeDirty /\ WellFormed /\ Unmarked(version.s)) =>
        /\ Returned
        /\ ~outcome.val.b
        /\ EndsWith(outcome.val.s, PlusDirty) \/ EndsWith(outcome.val.s, DotDirty)
        /\ Occurrences(outcome.val.s, PlusDirty)
             + Occurrences(outcome.val.s, DotDirty) = 1

(***************************************************************************)
(* C3  When the latest tag is non-empty and HEAD's identifier differs from *)
(* the commit the tag resolves to, get_version returns the template with   *)
(* {tag} replaced by the tag and {sha} by the first 8 characters of HEAD's *)
(* identifier.  Stated over the repositories whose tag and HEAD resolve to  *)
(* a commit and for a clean tree, where no dirty suffix is in question.    *)
(***************************************************************************)
C3_AheadOfTag ==
    (Ended /\ LatestTag # <<>> /\ HeadCommit # TagCommit /\ WellFormed
           /\ ~TreeDirty) =>
        /\ Returned
        /\ outcome.val =
              Text(FormatFrom(template, 1, LatestTag,
                              SubSeq(HeadCommit, 1, Min(8, Len(HeadCommit)))).s)

C5_AtTagClean ==
    (Ended /\ LatestTag # <<>> /\ HeadCommit = TagCommit /\ ~TreeDirty
           /\ WellFormed) =>
        /\ Returned
        /\ outcome.val.s = LatestTag

(***************************************************************************)
(* C6  A nonzero exit of a query is never surfaced: a call in which some   *)
(* queries exit nonzero ends exactly as the call on the same repository    *)
(* with the same arguments in which every query exits zero, and no call    *)
(* ends with CalledProcessError.  When every query fails and prints        *)
(* nothing, get_version returns starting_version without a dirty suffix.   *)
(***************************************************************************)
C6_ExitStatusIgnored ==
    Ended =>
        /\ Returned \/ outcome.exc # "CalledProcessError"
        /\ (prev.kind = "call" /\ (prev.zero \/ AllExitedZero))
              => outcome = prev.out
        /\ ( /\ \A i \in 1..Len(rcs) : rcs[i] # 0
             /\ gitTag = <<>> /\ gitHead = <<>> /\ gitStatus = <<>> )
              => outcome = Return(Text(starting_version))

C6_Witness ==
    /\ Ended
    /\ prev.kind = "call"
    /\ prev.zero
    /\ \A i \in 1..Len(rcs) : rcs[i] # 0
    /\ Len(log) = 5
    /\ TreeDirty
    /\ Returned

(***************************************************************************)
(* C7  validate_version_config fails with the TypeError carrying the fixed *)
(* message exactly when config is not a mapping; a mapping, empty or with  *)
(* unrelated keys, passes and get_version is entered.                      *)
(***************************************************************************)
C7_ConfigValidation ==
    (pc = "done" /\ entry = "validate_version_config") =>
        /\ config.type # "dict" =>
              /\ outcome = Raise("TypeError",
                   "Config should be a dictionary with version_format and starting_version keys.")
              /\ ~RanGetVersion
        /\ config.type = "dict" =>
              /\ RanGetVersion
              /\ Returned \/ outcome.msg # ConfigMessage

C7_Witness ==
    /\ pc = "done"
    /\ entry = "validate_version_config"
    /\ config.type = "list"
    /\ outcome.kind = "raise"
    /\ outcome.exc = "TypeError"

(***************************************************************************)
(* C8  For a mapping config the hook calls get_version with                *)
(* config["starting_version"] if present and "0.1.0" otherwise, and with   *)
(* config["version_format"] if present and "{tag}.dev{sha}" otherwise,     *)
(* each key defaulted on its own, and stores what get_version returns in   *)
(* dist.metadata.version.                                                  *)
(***************************************************************************)
C8_StartingVersion ==
    IF "starting_version" \in DOMAIN config.items
    THEN config.items["starting_version"]
    ELSE <<"0", ".", "1", ".", "0">>

C8_Template ==
    IF "version_format" \in DOMAIN config.items
    THEN config.items["version_format"]
    ELSE <<"{", "t", "a", "g", "}", ".", "d", "e", "v", "{", "s", "h", "a", "}">>

C8_HookUsesConfig ==
    (pc = "done" /\ entry = "validate_version_config" /\ config.type = "dict") =>
        /\ starting_version = C8_StartingVersion
        /\ template = C8_Template
        /\ dist = IF Returned THEN outcome.val ELSE None
        /\ (LatestTag = <<>> /\ ~TreeDirty) => dist = Text(C8_StartingVersion)
        /\ (~py3 /\ LatestTag # <<>> /\ HeadCommit # TagCommit /\ ~TreeDirty) =>
              dist = Text(FormatFrom(C8_Template, 1, LatestTag,
                                     SubSeq(HeadCommit, 1, Min(8, Len(HeadCommit)))).s)

C8_Witness ==
    /\ pc = "done"
    /\ entry = "validate_version_config"
    /\ DOMAIN config.items = {"version_format"}
    /\ ~py3
    /\ LatestTag # <<>>
    /\ HeadCommit # TagCommit
    /\ Returned
    /\ dist = outcome.val

(***************************************************************************)
(* C9  Two get_version calls with the same template and starting_version   *)
(* on an unchanged repository end the same way: the first leaves nothing   *)
(* behind that changes the second.                                         *)
(***************************************************************************)
C9_Idempotent ==
    (Ended /\ prev.kind = "call") => outcome = prev.out

C9_Witness ==
    /\ Ended
    /\ prev.kind = "call"
    /\ Returned
    /\ TreeDirty
    /\ LatestTag # <<>>

(***************************************************************************)
(* C10  Order of the queries of one get_version call: the latest-tag query *)
(* comes first; HEAD and the tag's commit are looked up for the            *)
(* HEAD-equals-tag check only when the tag is non-empty; HEAD is queried   *)
(* again for formatting only when that check was false; the status query   *)
(* is issued exactly once, last, after the undecorated version is chosen   *)
(* and before the call ends; a query's subprocess has exited before the    *)
(* next query starts.                                                      *)
(***************************************************************************)
C10_CheckWasTrue ==
    IsHeadAtTag(lhs, CommandOutput(RevList(ShellWord(RevListArg(tag))), 0))

====
